---- MODULE Spec2Model ----
(***************************************************************************)
(* envflag: binding environment variables to the flags of a flag.FlagSet.  *)
(* Strings are sequences of one-character strings, so that ToUpper,        *)
(* ReplaceAll, Sprintf, Join, Split and HasPrefix are computed character   *)
(* by character.                                                           *)
(***************************************************************************)
EXTENDS Integers, Sequences, FiniteSets, TLC

VARIABLES
  formal,         \* flagSet.formal: flag name -> [Kind, Value, Usage]
  parsed,         \* flagSet.Parsed()
  errorHandling,  \* flagSet.ErrorHandling()
  fsName,         \* flagSet.Name()
  env,            \* the process environment: variable name -> value
  prefixes,       \* the prefixes handed to BindFlagSet
  args,           \* the command line handed to flagSet.Parse
  bindErr,        \* what bind returned inside BindFlagSet
  result,         \* how BindFlagSet ended and what it handed back
  log,            \* writes to flagSet.Output() and calls of the exit hook, in order
  proc,           \* "running", "exited" or "panicked"
  parseErr,       \* what flagSet.Parse returned
  call            \* one evaluation of Prefix.envName: its inputs and its output

vars == <<formal, parsed, errorHandling, fsName, env, prefixes, args,
          bindErr, result, log, proc, parseErr, call>>

\* ------------------------------------------------------------------ bounds
MaxPrefixes == 2
MaxArgs == 1
MaxLen == 2

\* ----------------------------------------------------------------- strings
UpperLetters == <<"A","B","C","D","E","F","G","H","I","J","K","L","M",
                  "N","O","P","Q","R","S","T","U","V","W","X","Y","Z">>
LowerLetters == <<"a","b","c","d","e","f","g","h","i","j","k","l","m",
                  "n","o","p","q","r","s","t","u","v","w","x","y","z">>
Digits == <<"0","1","2","3","4","5","6","7","8","9">>

\* The characters of the model in byte order.
ByteOrder == <<" ", ",", "-", ".">> \o Digits \o <<"=">> \o UpperLetters
             \o <<"[", "]", "_">> \o LowerLetters

IndexOf(c, seq) == CHOOSE i \in 1..Len(seq) : seq[i] = c

\* The position of each character in byte order.
OrdOf == [c \in { ByteOrder[i] : i \in 1..Len(ByteOrder) } |-> IndexOf(c, ByteOrder)]

Ord(c) == OrdOf[c]

\* The upper-case letter of each lower-case letter.
UpperOf ==
  [c \in { LowerLetters[i] : i \in 1..Len(LowerLetters) } |->
     UpperLetters[IndexOf(c, LowerLetters)]]

ToUpperChar(c) == IF c \in DOMAIN UpperOf THEN UpperOf[c] ELSE c

ToUpper(s) == [i \in 1..Len(s) |-> ToUpperChar(s[i])]

ReplaceAll(s, old, new) == [i \in 1..Len(s) |-> IF s[i] = old THEN new ELSE s[i]]

HasPrefix(s, p) == Len(p) <= Len(s) /\ SubSeq(s, 1, Len(p)) = p

\* strings.Split(e, "=")[0]: the text before the first "=" (all of e without one).
SplitFirst(e) ==
  IF \E i \in 1..Len(e) : e[i] = "="
  THEN LET k == CHOOSE i \in 1..Len(e) : e[i] = "=" /\ \A j \in 1..(i-1) : e[j] # "="
       IN SubSeq(e, 1, k - 1)
  ELSE e

RECURSIVE Join(_, _)
Join(strs, sep) ==
  IF strs = <<>> THEN <<>>
  ELSE IF Len(strs) = 1 THEN strs[1]
  ELSE strs[1] \o sep \o Join(Tail(strs), sep)

\* s < t as Go compares strings.
RECURSIVE Less(_, _)
Less(s, t) ==
  IF t = <<>> THEN FALSE
  ELSE IF s = <<>> THEN TRUE
  ELSE IF s[1] # t[1] THEN Ord(s[1]) < Ord(t[1])
  ELSE Less(Tail(s), Tail(t))

\* ------------------------------------------------------------------ errors
NoError == [kind |-> "nil", value |-> <<>>, name |-> <<>>]
OrderError == [kind |-> "must be called before flag.Parse()", value |-> <<>>, name |-> <<>>]
InvalidValueError(envValue, e) ==
  [kind |-> "invalid value", value |-> envValue, name |-> e]
NotDefinedError(envName) ==
  [kind |-> "environment variable provided but corresponding flag not defined",
   value |-> <<>>, name |-> envName]
ParseError(flagName) == [kind |-> "flag.Parse", value |-> <<>>, name |-> flagName]

\* ------------------------------------------------------------------ prefixes
NewPrefix(prefix, strict) == [prefix |-> prefix, strict |-> strict]

NoPrefix == NewPrefix(<<>>, FALSE)

envNameKeepCase(p, flagName) ==
  LET s == IF p.prefix # <<>> THEN p.prefix \o <<"_">> \o flagName ELSE flagName
  IN ReplaceAll(s, "-", "_")

envName(p, flagName) ==
  LET s0 == ToUpper(flagName)
      s == IF p.prefix # <<>> THEN p.prefix \o <<"_">> \o s0 ELSE s0
  IN ReplaceAll(s, "-", "_")

\* ------------------------------------------------------------- flag values
\* strconv.Itoa
RECURSIVE FormatNat(_)
FormatNat(n) ==
  IF n < 10 THEN <<Digits[n + 1]>>
  ELSE FormatNat(n \div 10) \o <<Digits[(n % 10) + 1]>>

FormatInt(n) == IF n < 0 THEN <<"-">> \o FormatNat(0 - n) ELSE FormatNat(n)

DigitSet == { Digits[i] : i \in 1..Len(Digits) }

IsDigit(c) == c \in DigitSet

RECURSIVE ParseNat(_, _)
ParseNat(s, acc) ==
  IF s = <<>> THEN acc
  ELSE ParseNat(Tail(s), acc * 10 + (IndexOf(s[1], Digits) - 1))

Unsigned(s) == IF s # <<>> /\ s[1] \in {"-", "+"} THEN Tail(s) ELSE s

\* strconv.ParseInt on an optional sign and decimal digits without a base prefix;
\* any other text is a syntax error.
ParseIntOk(s) ==
  LET u == Unsigned(s)
  IN /\ u # <<>>
     /\ \A i \in 1..Len(u) : IsDigit(u[i])
     /\ (Len(u) = 1 \/ u[1] # "0")

ParseInt(s) ==
  IF ~ParseIntOk(s) THEN 0
  ELSE IF s[1] = "-" THEN 0 - ParseNat(Unsigned(s), 0)
  ELSE ParseNat(Unsigned(s), 0)

\* f.Value.String()
String(f) == IF f.Kind = "int" THEN FormatInt(f.Value) ELSE f.Value

\* f.Value.Set(s): the flag afterwards and whether Set returned an error.  An int
\* flag stores what ParseInt returned even when it failed (0 on a syntax error).
Set(f, s) ==
  IF f.Kind = "int"
  THEN [flag |-> [f EXCEPT !.Value = ParseInt(s)], failed |-> ~ParseIntOk(s)]
  ELSE [flag |-> [f EXCEPT !.Value = s], failed |-> FALSE]

\* ---------------------------------------------------------------- the inputs
MyVar == <<"m","y","-","v","a","r">>
IntVar == <<"i","n","t","-","v","a","r">>
DefaultString == <<"d","e","f">>
DefaultInt == 20
ThisIsAFlag == <<"T","h","i","s"," ","i","s"," ","a"," ","f","l","a","g",".">>
AnIntFlag == <<"a","n"," ","i","n","t"," ","f","l","a","g",".">>

Port == <<"p","o","r","t">>
DefaultPort == 8080
ThePort == <<"t","h","e"," ","p","o","r","t">>

\* fs.Int("int-var", 20, ...), fs.String("my-var", ...) and flag.Int("port", 8080, ...)
NewFlag(name) ==
  IF name = IntVar
  THEN [Kind |-> "int", Value |-> DefaultInt, Usage |-> AnIntFlag]
  ELSE IF name = Port
  THEN [Kind |-> "int", Value |-> DefaultPort, Usage |-> ThePort]
  ELSE [Kind |-> "string", Value |-> DefaultString, Usage |-> ThisIsAFlag]

\* The flags in the order a program defines them; a flag set holds the first few.
Defined == <<IntVar, MyVar, Port>>

FlagSets == { { Defined[i] : i \in 1..k } : k \in 0..Len(Defined) }

MYAPP == <<"M","Y","A","P","P">>
MY_VAR == <<"M","Y","_","V","A","R">>
INT_VAR == <<"I","N","T","_","V","A","R">>
MYAPP_INT_VAR == MYAPP \o <<"_">> \o INT_VAR
MYAPP_BAD_VAR == MYAPP \o <<"_","B","A","D","_","V","A","R">>
PORT == <<"P","O","R","T">>

\* The prefixes a caller may construct.
PrefixPool ==
  { NoPrefix, NewPrefix(MYAPP, FALSE), NewPrefix(MYAPP, TRUE),
    NewPrefix(MY_VAR \o <<"=">>, TRUE) }

\* The environment variables that may be set, each with the values it may have.
EnvValues(n) ==
  IF n = INT_VAR THEN { <<"7">>, <<"x">> }
  ELSE IF n = MYAPP_INT_VAR THEN { <<"8">>, <<"n","o">> }
  ELSE IF n = MY_VAR THEN { <<"e","1">> }
  ELSE IF n = PORT THEN { <<"8","0">>, <<"a","b","c">> }
  ELSE { <<"v">> }

EnvNames == { INT_VAR, MYAPP_INT_VAR, MY_VAR, PORT, MYAPP_BAD_VAR }

AllEnvValues == UNION { EnvValues(n) : n \in EnvNames }

Environments ==
  { e \in UNION { [D -> AllEnvValues] : D \in SUBSET EnvNames } :
      \A n \in DOMAIN e : e[n] \in EnvValues(n) }

\* --my-var=cmd and --int-var=9
ArgPool == { [name |-> MyVar, value |-> <<"c","m","d">>],
             [name |-> IntVar, value |-> <<"9">>] }

SeqsUpTo(S, n) == UNION { [1..k -> S] : k \in 0..n }

ContinueOnError == "ContinueOnError"
ExitOnError == "ExitOnError"
PanicOnError == "PanicOnError"

TestName == <<"t","e","s","t">>

NoCall == [flagName |-> <<>>, prefix |-> <<>>, out |-> <<>>, done |-> FALSE]

NoResult == [state |-> "none", err |-> NoError]

\* -------------------------------------------------------------------- bind
updateUsageNoSeparator(f, name, pfxs) ==
  LET envs == [i \in 1..Len(pfxs) |-> envName(pfxs[i], name)]
  IN [f EXCEPT !.Usage = f.Usage \o <<" ", "[">> \o Join(envs, <<",">>) \o <<"]">>]

updateUsage(f, name, pfxs) ==
  LET envs == [i \in 1..Len(pfxs) |-> envName(pfxs[i], name)]
  IN [f EXCEPT !.Usage = f.Usage \o <<" ", "[">> \o Join(envs, <<",", " ">>) \o <<"]">>]

\* st = [formal, matched, visitErr]: the flags, matchedEnvValues and visitErr while
\* VisitAll runs.

\* The restoring Set left out.
applyEnvNoRestore(st, name, p, environ) ==
  LET e == envName(p, name)
  IN IF e \notin DOMAIN environ THEN st
     ELSE LET s == Set(st.formal[name], environ[e])
          IN [st EXCEPT !.formal = [st.formal EXCEPT ![name] = s.flag],
                        !.matched = st.matched \cup {e},
                        !.visitErr = IF s.failed THEN InvalidValueError(environ[e], e)
                                     ELSE st.visitErr]

\* The restoring Set moved out of the error branch.
applyEnvRestoreAlways(st, name, p, environ) ==
  LET e == envName(p, name)
  IN IF e \notin DOMAIN environ THEN st
     ELSE LET prevValue == String(st.formal[name])
              s == Set(st.formal[name], environ[e])
          IN [st EXCEPT !.formal = [st.formal EXCEPT ![name] = Set(s.flag, prevValue).flag],
                        !.matched = st.matched \cup {e},
                        !.visitErr = IF s.failed THEN InvalidValueError(environ[e], e)
                                     ELSE st.visitErr]

\* visitErr assigned from every Set, a nil one included.
applyEnvAssignErr(st, name, p, environ) ==
  LET e == envName(p, name)
  IN IF e \notin DOMAIN environ THEN st
     ELSE LET prevValue == String(st.formal[name])
              s == Set(st.formal[name], environ[e])
          IN [st EXCEPT !.formal = [st.formal EXCEPT ![name] =
                                      IF s.failed THEN Set(s.flag, prevValue).flag ELSE s.flag],
                        !.matched = st.matched \cup {e},
                        !.visitErr = IF s.failed THEN InvalidValueError(environ[e], e)
                                     ELSE NoError]

\* The body of the loop over the prefixes, for one flag and one prefix.
applyEnv(st, name, p, environ) ==
  LET e == envName(p, name)
  IN IF e \notin DOMAIN environ THEN st
     ELSE LET envValue == environ[e]
              prevValue == String(st.formal[name])
              s == Set(st.formal[name], envValue)
          IN [st EXCEPT !.formal = [st.formal EXCEPT ![name] =
                                      IF s.failed THEN Set(s.flag, prevValue).flag ELSE s.flag],
                        !.matched = st.matched \cup {e},
                        !.visitErr = IF s.failed THEN InvalidValueError(envValue, e)
                                     ELSE st.visitErr]

RECURSIVE visitPrefixesFirstWins(_, _, _, _, _)
visitPrefixesFirstWins(st, name, pfxs, i, environ) ==
  IF i > Len(pfxs) THEN st
  ELSE IF envName(pfxs[i], name) \in DOMAIN environ
       THEN applyEnv(st, name, pfxs[i], environ)
       ELSE visitPrefixesFirstWins(st, name, pfxs, i + 1, environ)

\* for _, p := range prefixes, from the i-th prefix on.
RECURSIVE visitPrefixes(_, _, _, _, _)
visitPrefixes(st, name, pfxs, i, environ) ==
  IF i > Len(pfxs) THEN st
  ELSE visitPrefixes(applyEnv(st, name, pfxs[i], environ), name, pfxs, i + 1, environ)

\* The function VisitAll calls for each flag.
visitFlag(st, name, pfxs, environ) ==
  visitPrefixes([st EXCEPT !.formal = [st.formal EXCEPT ![name] =
                                         updateUsage(st.formal[name], name, pfxs)]],
                name, pfxs, 1, environ)

\* flagSet.VisitAll visits the flags in lexicographical order of their names.
RECURSIVE sortFlags(_)
sortFlags(names) ==
  IF names = {} THEN <<>>
  ELSE LET first == CHOOSE n \in names : \A m \in names \ {n} : Less(n, m)
       IN <<first>> \o sortFlags(names \ {first})

RECURSIVE VisitAll(_, _, _, _)
VisitAll(st, order, pfxs, environ) ==
  IF order = <<>> THEN st
  ELSE VisitAll(visitFlag(st, order[1], pfxs, environ), Tail(order), pfxs, environ)

\* An entry of os.Environ().
Entry(n, environ) == n \o <<"=">> \o environ[n]

\* The names the loop over os.Environ() can return an error for: each entry that
\* has the prefix string of a strict prefix and whose name was not matched.
\* os.Environ() has no specified order, so the first of them is any of them.
strictViolations(pfxs, environ, matched) ==
  { SplitFirst(Entry(n, environ)) : n \in
      { m \in DOMAIN environ :
          \E i \in 1..Len(pfxs) :
            /\ pfxs[i].strict
            /\ HasPrefix(Entry(m, environ), pfxs[i].prefix)
            /\ SplitFirst(Entry(m, environ)) \notin matched } }

withDefault(pfxs) == IF Len(pfxs) = 0 THEN <<NoPrefix>> ELSE pfxs

visited(fm, pfxs, environ) ==
  VisitAll([formal |-> fm, matched |-> {}, visitErr |-> NoError],
           sortFlags(DOMAIN fm), withDefault(pfxs), environ)

\* The flags visited before flagSet.Parsed() is looked at.
bindVisitFirst(fm, isParsed, pfxs, environ) ==
  LET st == visited(fm, pfxs, environ)
  IN IF isParsed THEN { [formal |-> st.formal, err |-> OrderError] }
     ELSE IF st.visitErr # NoError THEN { [formal |-> st.formal, err |-> st.visitErr] }
     ELSE { [formal |-> st.formal, err |-> NoError] }

\* bind: the set of its possible outcomes [formal, err].
bind(fm, isParsed, pfxs, environ) ==
  IF isParsed THEN { [formal |-> fm, err |-> OrderError] }
  ELSE LET st == visited(fm, pfxs, environ)
           bad == strictViolations(withDefault(pfxs), environ, st.matched)
       IN IF st.visitErr # NoError THEN { [formal |-> st.formal, err |-> st.visitErr] }
          ELSE IF bad # {} THEN { [formal |-> st.formal, err |-> NotDefinedError(n)] : n \in bad }
          ELSE { [formal |-> st.formal, err |-> NoError] }

\* ------------------------------------------------------------- BindFlagSet
Write(op, arg) == [op |-> op, arg |-> arg]

UsageHeader(name) ==
  IF name = <<>> THEN <<"U","s","a","g","e",":">>
  ELSE <<"U","s","a","g","e"," ","o","f"," ">> \o name \o <<":">>

\* The exit hook: os.Exit(2) ends the process, a stub put in its place returns.
ExitHookReturns == BOOLEAN

\* The usage-order error handed back before the switch.
handleOrderErrorReturned(err, handling, name, exitReturns) ==
  IF err = NoError \/ err = OrderError \/ handling = ContinueOnError
    THEN [result |-> [state |-> "returned", err |-> err], log |-> <<>>, proc |-> "running"]
  ELSE IF handling = PanicOnError
    THEN [result |-> [state |-> "panicked", err |-> err], log |-> <<>>, proc |-> "panicked"]
  ELSE [result |-> [state |-> IF exitReturns THEN "returned" ELSE "exited", err |-> NoError],
        log |-> << Write("Fprintln", err), Write("Fprintf", UsageHeader(name)),
                   Write("PrintDefaults", <<>>), Write("exit", <<>>) >>,
        proc |-> IF exitReturns THEN "running" ELSE "exited"]

\* The ContinueOnError case falling into the default case.
handleFallthrough(err, handling, name, exitReturns) ==
  IF err = NoError
    THEN [result |-> [state |-> "returned", err |-> NoError], log |-> <<>>, proc |-> "running"]
  ELSE IF handling = PanicOnError
    THEN [result |-> [state |-> "panicked", err |-> err], log |-> <<>>, proc |-> "panicked"]
  ELSE [result |-> [state |-> IF exitReturns THEN "returned" ELSE "exited", err |-> NoError],
        log |-> << Write("Fprintln", err), Write("Fprintf", UsageHeader(name)),
                   Write("PrintDefaults", <<>>), Write("exit", <<>>) >>,
        proc |-> IF exitReturns THEN "running" ELSE "exited"]

\* What BindFlagSet does with the error bind returned.
handle(err, handling, name, exitReturns) ==
  IF err = NoError
    THEN [result |-> [state |-> "returned", err |-> NoError], log |-> <<>>, proc |-> "running"]
  ELSE IF handling = ContinueOnError
    THEN [result |-> [state |-> "returned", err |-> err], log |-> <<>>, proc |-> "running"]
  ELSE IF handling = PanicOnError
    THEN [result |-> [state |-> "panicked", err |-> err], log |-> <<>>, proc |-> "panicked"]
  ELSE [result |-> [state |-> IF exitReturns THEN "returned" ELSE "exited", err |-> NoError],
        log |-> << Write("Fprintln", err), Write("Fprintf", UsageHeader(name)),
                   Write("PrintDefaults", <<>>), Write("exit", <<>>) >>,
        proc |-> IF exitReturns THEN "running" ELSE "exited"]

\* One call of BindFlagSet; binding is done once per flag set.
BindFlagSet ==
  /\ proc = "running"
  /\ result.state = "none"
  /\ \E r \in bind(formal, parsed, prefixes, env) :
       \E exitReturns \in ExitHookReturns :
         LET h == handle(r.err, errorHandling, fsName, exitReturns)
         IN /\ formal' = r.formal
            /\ bindErr' = r.err
            /\ result' = h.result
            /\ log' = log \o h.log
            /\ proc' = h.proc
  /\ UNCHANGED <<parsed, errorHandling, fsName, env, prefixes, args, parseErr, call>>

\* ------------------------------------------------------------ flagSet.Parse
\* Each argument --name=value in turn; the first failure ends the parse.
RECURSIVE parseArgs(_, _)
parseArgs(fm, arguments) ==
  IF arguments = <<>> THEN [formal |-> fm, err |-> NoError]
  ELSE LET a == arguments[1]
       IN IF a.name \notin DOMAIN fm THEN [formal |-> fm, err |-> ParseError(a.name)]
          ELSE LET s == Set(fm[a.name], a.value)
                   fm2 == [fm EXCEPT ![a.name] = s.flag]
               IN IF s.failed THEN [formal |-> fm2, err |-> ParseError(a.name)]
                  ELSE parseArgs(fm2, Tail(arguments))

\* One call of flagSet.Parse(args), before or after BindFlagSet.  On an error the
\* flag package itself returns, exits or panics as the policy says.
Parse ==
  /\ proc = "running"
  /\ ~parsed
  /\ LET r == parseArgs(formal, args)
     IN /\ formal' = r.formal
        /\ parseErr' = r.err
        /\ proc' = IF r.err = NoError \/ errorHandling = ContinueOnError THEN "running"
                   ELSE IF errorHandling = PanicOnError THEN "panicked"
                   ELSE "exited"
  /\ parsed' = TRUE
  /\ UNCHANGED <<errorHandling, fsName, env, prefixes, args, bindErr, result, log, call>>

\* ------------------------------------------------------------ specification
\* A flag set's name is read only when its policy is ExitOnError.
FlagSetConfigs ==
  { c \in [handling : {ContinueOnError, ExitOnError, PanicOnError}, name : {TestName, <<>>}] :
      c.name = <<>> => c.handling = ExitOnError }

InitWith(configs, environments) ==
  /\ \E names \in FlagSets : formal = [n \in names |-> NewFlag(n)]
  /\ parsed = FALSE
  /\ \E c \in configs :
       /\ errorHandling = c.handling
       /\ fsName = c.name
  /\ env \in environments
  /\ prefixes \in SeqsUpTo(PrefixPool, MaxPrefixes)
  /\ args \in SeqsUpTo(ArgPool, MaxArgs)
  /\ bindErr = NoError
  /\ result = NoResult
  /\ log = <<>>
  /\ proc = "running"
  /\ parseErr = NoError
  /\ call = NoCall

\* flag.NewFlagSet("test", flag.ContinueOnError), as the tests build it.
Init == InitWith({ [handling |-> ContinueOnError, name |-> TestName] }, Environments)

Next == BindFlagSet \/ Parse

Spec == Init /\ [][Next]_vars

\* Every error-handling policy, over the environments of two variables.
InitHandling ==
  InitWith(FlagSetConfigs, { e \in Environments : DOMAIN e \subseteq {INT_VAR, MYAPP_BAD_VAR} })

SpecHandling == InitHandling /\ [][Next]_vars

\* ------------------------------------------- Prefix.envName on its own
NameChars == {"a", "B", "-", "_"}
PrefixChars == {"m", "P", "-"}

InitEnvName ==
  /\ formal = [n \in {} |-> NewFlag(n)]
  /\ parsed = FALSE
  /\ errorHandling = ContinueOnError
  /\ fsName = TestName
  /\ env = [n \in {} |-> <<>>]
  /\ prefixes = <<>>
  /\ args = <<>>
  /\ bindErr = NoError
  /\ result = NoResult
  /\ log = <<>>
  /\ proc = "running"
  /\ parseErr = NoError
  /\ \E f \in SeqsUpTo(NameChars, MaxLen), s \in SeqsUpTo(PrefixChars, MaxLen) :
       call = [flagName |-> f, prefix |-> s, out |-> <<>>, done |-> FALSE]

CallEnvName ==
  /\ ~call.done
  /\ call' = [call EXCEPT !.out = envName(NewPrefix(call.prefix, FALSE), call.flagName),
                          !.done = TRUE]
  /\ UNCHANGED <<formal, parsed, errorHandling, fsName, env, prefixes, args,
                 bindErr, result, log, proc, parseErr>>

NextEnvName == CallEnvName

SpecEnvName == InitEnvName /\ [][NextEnvName]_vars

\* ==================================================================== claims
\* The prefixes bind works with.
Eff == IF prefixes = <<>> THEN <<NoPrefix>> ELSE prefixes

NameUnder(i, f) == envName(Eff[i], f)

Max(S) == CHOOSE x \in S : \A y \in S : y <= x

Original(f) == NewFlag(f).Value

ValueOf(f, s) == IF NewFlag(f).Kind = "int" THEN ParseInt(s) ELSE s

\* The positions of the prefixes under which flag f has its variable set, and those
\* whose value the flag's setter accepts or rejects.
Present(f) == { i \in 1..Len(Eff) : NameUnder(i, f) \in DOMAIN env }
Accepted(f) ==
  { i \in Present(f) : NewFlag(f).Kind = "int" => ParseIntOk(env[NameUnder(i, f)]) }
Rejected(f) == Present(f) \ Accepted(f)

EnvValueAt(f, S) == IF S = {} THEN Original(f) ELSE ValueOf(f, env[NameUnder(Max(S), f)])

RejectingFlags == { f \in DOMAIN formal : Rejected(f) # {} }

\* BindFlagSet has run, and bind found the flag set not yet parsed.
BindRan == result.state # "none" /\ bindErr # OrderError

\* The same, with flagSet.Parse not yet called.
JustBound == BindRan /\ ~parsed

Supplied(f) == { k \in 1..Len(args) : args[k].name = f }

\* C1: when bind succeeded on an unparsed flag set and the command line then parsed
\* without error, each flag the command line supplies holds the (last) command-line
\* value, and every other flag holds the value bind applied from the environment:
\* that of its last prefix whose variable is set, or its default when none is.
C1_CommandLineWins ==
  (BindRan /\ bindErr = NoError /\ parsed /\ parseErr = NoError) =>
    \A f \in DOMAIN formal :
      formal[f].Value = IF Supplied(f) # {}
                        THEN ValueOf(f, args[Max(Supplied(f))].value)
                        ELSE EnvValueAt(f, Present(f))

C1_Witness ==
  /\ BindRan /\ bindErr = NoError /\ parsed /\ parseErr = NoError
  /\ \E f \in DOMAIN formal :
       Supplied(f) # {} /\ Present(f) # {} /\ formal[f].Value # EnvValueAt(f, Present(f))
  /\ \E g \in DOMAIN formal : Supplied(g) = {} /\ Present(g) # {}

\* C2 as claimed: after bind, for every rejected value the error names that value
\* and its variable, and the flag holds the value it had just before that value
\* was applied.
C2_EveryRejectionReported ==
  JustBound =>
    \A f \in DOMAIN formal : \A i \in Rejected(f) :
      /\ bindErr = InvalidValueError(env[NameUnder(i, f)], NameUnder(i, f))
      /\ formal[f].Value = EnvValueAt(f, { j \in Accepted(f) : j < i })

\* The flag visited last among those with a rejected value.
LastRejectingFlag ==
  CHOOSE f \in RejectingFlags : \A g \in RejectingFlags \ {f} : Less(g, f)

\* C2, amended: when some value is rejected, bind's error names the value and the
\* variable of the rejection made last (flags in name order, prefixes in supplied
\* order), and each flag with a rejected value holds the last value its setter
\* accepted, or its value before bind when it accepted none.
C2_LastRejectionReported ==
  JustBound =>
    /\ RejectingFlags # {} =>
         LET f == LastRejectingFlag
             n == NameUnder(Max(Rejected(f)), f)
         IN bindErr = InvalidValueError(env[n], n)
    /\ \A f \in RejectingFlags : formal[f].Value = EnvValueAt(f, Accepted(f))

C2_Witness ==
  /\ JustBound
  /\ Cardinality(RejectingFlags) >= 2
  /\ \E f \in RejectingFlags : \E i \in Rejected(f) : \E j \in Accepted(f) : i < j

\* The names bind matched to a flag.
MatchedNames ==
  { NameUnder(i, f) : i \in 1..Len(Eff), f \in DOMAIN formal } \cap DOMAIN env

\* The variables whose name begins with the prefix string of a strict prefix and
\* that no flag matched.
UnmatchedUnderStrict ==
  { n \in DOMAIN env \ MatchedNames :
      \E i \in 1..Len(Eff) : Eff[i].strict /\ HasPrefix(n, Eff[i].prefix) }

\* C3: without a value-conversion error, bind returns the strict-violation error,
\* naming such a variable, exactly when some variable's name begins with the prefix
\* string of a strict prefix and was matched to no flag.
C3_StrictViolationIff ==
  (BindRan /\ bindErr.kind # "invalid value") =>
    /\ (bindErr # NoError) <=> (UnmatchedUnderStrict # {})
    /\ bindErr # NoError => bindErr \in { NotDefinedError(n) : n \in UnmatchedUnderStrict }

\* C4 as claimed: a flag whose variable is set under more than one prefix holds,
\* after bind, the value of the variable of the last such prefix.
C4_LastPresentWins ==
  JustBound =>
    \A f \in DOMAIN formal :
      Cardinality(Present(f)) >= 2 =>
        String(formal[f]) = env[NameUnder(Max(Present(f)), f)]

\* C4, amended: after bind on an unparsed flag set, a flag whose variable is set
\* under more than one prefix holds the value of the variable of the last such
\* prefix whose value the flag's setter accepts, and its value before bind when
\* the setter accepts none of them.
C4_LastAcceptedWins ==
  JustBound =>
    \A f \in DOMAIN formal :
      Cardinality(Present(f)) >= 2 => formal[f].Value = EnvValueAt(f, Accepted(f))

C4_Witness ==
  /\ JustBound
  /\ \E f \in DOMAIN formal : \E i, j \in Accepted(f) :
       i < j /\ env[NameUnder(i, f)] # env[NameUnder(j, f)]

\* C5: a BindFlagSet step on a flag set that has already parsed its arguments ends
\* with the configuration-order error and changes no flag's value or usage text.
C5_ParsedLeavesFlagsAlone ==
  [][(result.state = "none" /\ result'.state # "none" /\ parsed) =>
       (bindErr' = OrderError /\ formal' = formal)]_vars

C5_Witness ==
  /\ bindErr = OrderError
  /\ \E f \in DOMAIN formal : Present(f) # {}
  /\ Len(prefixes) >= 1

\* The names of flag f under the prefixes from the i-th on, separated by ", ".
RECURSIVE CommaList(_, _)
CommaList(f, i) ==
  IF i > Len(Eff) THEN <<>>
  ELSE (IF i > 1 THEN <<",", " ">> ELSE <<>>) \o NameUnder(i, f) \o CommaList(f, i + 1)

\* C6: after bind on an unparsed flag set, every flag's usage text is its original
\* usage, a space, and in brackets the names of its variables under the prefixes in
\* supplied order, separated by ", " (the default prefix when none was supplied),
\* whatever bind returned.
C6_UsageAnnotated ==
  BindRan =>
    \A f \in DOMAIN formal :
      formal[f].Usage = NewFlag(f).Usage \o <<" ", "[">> \o CommaList(f, 1) \o <<"]">>

C6_Witness ==
  /\ BindRan
  /\ bindErr.kind = "environment variable provided but corresponding flag not defined"
  /\ Cardinality(DOMAIN formal) >= 2
  /\ Len(prefixes) >= 2
  /\ \E f \in DOMAIN formal : Present(f) = {}

Hyphenless(s) == [i \in 1..Len(s) |-> IF s[i] = "-" THEN "_" ELSE s[i]]

\* C7 as claimed: the mapped name is the upper-cased flag name with hyphens turned
\* into underscores, preceded by the prefix string, unchanged, and one underscore
\* exactly when the prefix string is not empty.
C7_PrefixVerbatim ==
  call.done =>
    call.out = (IF call.prefix # <<>> THEN call.prefix \o <<"_">> ELSE <<>>)
               \o Hyphenless(ToUpper(call.flagName))

\* C7, amended: the mapped name is the upper-cased flag name with hyphens turned
\* into underscores, preceded, exactly when the prefix string is not empty, by the
\* prefix string and one underscore, where the prefix string keeps its case and
\* has each of its hyphens turned into an underscore too.
C7_PrefixHyphensReplaced ==
  call.done =>
    call.out = (IF call.prefix # <<>> THEN Hyphenless(call.prefix) \o <<"_">> ELSE <<>>)
               \o Hyphenless(ToUpper(call.flagName))

C7_Witness ==
  /\ call.done
  /\ \E i \in 1..Len(call.prefix) : call.prefix[i] = "-"
  /\ \E i \in 1..Len(call.prefix) : call.prefix[i] = "m"
  /\ \E i \in 1..Len(call.flagName) : call.flagName[i] = "a"
  /\ \E i \in 1..Len(call.flagName) : call.flagName[i] = "-"

ExitCalls == { k \in 1..Len(log) : log[k].op = "exit" }

PrintAndExit(err) ==
  << Write("Fprintln", err), Write("Fprintf", UsageHeader(fsName)),
     Write("PrintDefaults", <<>>), Write("exit", <<>>) >>

\* C8: the exit hook is called exactly when bind failed and the policy is
\* ExitOnError, then once and after the error message, the usage header and the
\* usage listing, written in that order; under ContinueOnError BindFlagSet hands
\* bind's error back, writes nothing and does not call the hook.
C8_ExitHook ==
  /\ (ExitCalls # {}) <=> (bindErr # NoError /\ errorHandling = ExitOnError)
  /\ ExitCalls # {} => log = PrintAndExit(bindErr)
  /\ (result.state # "none" /\ errorHandling = ContinueOnError) =>
       (result = [state |-> "returned", err |-> bindErr] /\ log = <<>>)

C8_Witness ==
  /\ errorHandling = ExitOnError
  /\ bindErr.kind = "invalid value"
  /\ Cardinality(ExitCalls) = 1
  /\ fsName = <<>>

\* C9 as claimed: the usage-order error is handed back to the caller as an error
\* value under every error-handling policy.
C9_OrderErrorReturned ==
  bindErr = OrderError => result = [state |-> "returned", err |-> OrderError]

\* C9, amended: the usage-order error goes through the flag set's policy as every
\* other error of bind does: handed back under ContinueOnError, a panic under
\* PanicOnError and, under ExitOnError, printed with the usage before the exit hook
\* is called.
C9_OrderErrorFollowsPolicy ==
  bindErr = OrderError =>
    /\ errorHandling = ContinueOnError =>
         (result = [state |-> "returned", err |-> OrderError] /\ log = <<>>)
    /\ errorHandling = PanicOnError =>
         (result = [state |-> "panicked", err |-> OrderError] /\ proc = "panicked")
    /\ errorHandling = ExitOnError =>
         (log = PrintAndExit(OrderError) /\ result.err = NoError)

C9_Witness ==
  /\ bindErr = OrderError
  /\ errorHandling = ExitOnError
  /\ Len(log) = 4
  /\ result.state = "exited"

\* C10: when bind rejects at least one value, what it returns is a
\* value-conversion error, whatever it applies afterwards and whatever unmatched
\* variable stands under a strict prefix.
C10_ValueErrorKept ==
  (BindRan /\ RejectingFlags # {}) => bindErr.kind = "invalid value"

C10_Witness ==
  /\ BindRan
  /\ UnmatchedUnderStrict # {}
  /\ \E f \in RejectingFlags :
       \/ \E i \in Rejected(f) : \E j \in Accepted(f) : i < j
       \/ \E g \in DOMAIN formal : Less(f, g) /\ Accepted(g) # {}

====
